---- MODULE Spec2Model ----
(***************************************************************************)
(* Trimify: the queue / appointment engine of a barbershop back office.    *)
(*                                                                         *)
(* The server is an Express application (registerRoutes) whose handlers    *)
(* call DatabaseStorage, one SQL statement per storage method.  The        *)
(* browser side is a set of React components that cache the result of     *)
(* GET /api/queue (queueData, re-fetched every 5 s), of                    *)
(* GET /api/appointments and of GET /api/services, and issue the           *)
(* requests.  Each handler is one                                          *)
(* atomic action.  A page's cached listing and its form are state of       *)
(* their own, and what a page has sent stays in flight until the server    *)
(* handles it, so that a request can be computed from a listing that is    *)
(* older than the store and handled after later ones.                      *)
(***************************************************************************)
EXTENDS Integers, FiniteSets, Sequences, Bags, TLC

(* ------------------------------------------------------------------ *)
(* Bounds of the model                                                 *)
(* ------------------------------------------------------------------ *)
MaxQueueId == 3
MaxPosition == 3
MaxAppointmentId == 2
MaxSlot == 3
MaxTick == 2
MaxEstimate == 1
MaxTransactionId == 2
MaxQuantity == 4
MaxServiceId == 4
MaxReviewId == 2
MaxBarberId == 2
MaxInFlight == 2
MaxPageEntries == 2
MaxPageAppointments == 1

\* The length generateSubdomain cuts the base to.
SubdomainLength == 20

(* ------------------------------------------------------------------ *)
(* Tenants, customers, services                                        *)
(* ------------------------------------------------------------------ *)
Users == {"u1", "u2"}

\* customers.userId of the customers table: customer 1 belongs to u1, 2 to u2.
CustomerIds == {1, 2}
customers == [c \in CustomerIds |-> [userId |-> IF c = 1 THEN "u1" ELSE "u2"]]

\* The service catalogue of the scenario of the specification: tenant u1
\* offers Haircut (30 min) and Shave (15 min); tenant u2 one 30 min service.
\* ServiceIds are the ids of this catalogue; the services created later take
\* the ids after them.
ServiceIds == {1, 2, 3}
InitialServices ==
    [s \in ServiceIds |->
        [userId   |-> IF s = 3 THEN "u2" ELSE "u1",
         duration |-> IF s = 2 THEN 15 ELSE 30,
         isActive |-> TRUE]]

QueueStatuses == {"waiting", "in_progress", "completed"}
AppointmentStatuses == {"scheduled", "in_progress", "completed", "cancelled"}

VARIABLES
    services,          \* services table: id -> row
    queue,             \* queue table: set of rows
    nextQueueId,       \* serial of queue.id
    appointments,      \* appointments table: set of rows
    nextAppointmentId, \* serial of appointments.id
    queueData,         \* per browser: the cached result of GET /api/queue
    form,              \* the booking modal's form values
    timezoneOffset,    \* minutes the browser's local time is ahead of UTC
    clock,             \* the server's local time, in minutes
    transactions,      \* transactions table: set of rows
    nextTransactionId, \* serial of transactions.id
    stats,             \* the getDashboardStats call in progress and its locals
    todays,            \* the last answer of GET /api/appointments/today
    cart,              \* per tenant's browser: the point-of-sale modal's cart
    users,             \* users table: id -> row
    onboarding,        \* per user: the completeOnboarding call in progress
    barbers,           \* barbers table: set of rows
    nextBarberId,      \* serial of barbers.id
    reviews,           \* reviews table: set of rows
    nextReviewId,      \* serial of reviews.id
    nextServiceId,     \* serial of services.id
    network,           \* requests and answers in flight between pages and server
    appointmentsData,  \* per browser: the cached result of GET /api/appointments
    servicesData,      \* per tenant's session: the cached result of GET /api/services
    last               \* the last request handled and its response

\* The tables and the browser state written by the queue and appointment
\* handlers, and the state of the day: the clock, the transactions and the
\* two daily reports.
shopVars == <<services, queue, nextQueueId, appointments, nextAppointmentId,
              queueData, form, timezoneOffset>>
dayVars == <<clock, transactions, nextTransactionId, stats, todays>>

\* The users and their barbers with the onboarding calls; the reviews and
\* the serial of the services.  offlineVars is these with the cart, the
\* Appointments page's listing and the modals' listing of the services:
\* with the shop and the day, everything but the network and the last
\* response.
tenantVars == <<users, onboarding, barbers, nextBarberId>>
recordVars == <<reviews, nextReviewId, nextServiceId>>
offlineVars == <<cart, tenantVars, recordVars, appointmentsData,
                 servicesData>>

vars == <<shopVars, dayVars, offlineVars, network, last>>

(* ------------------------------------------------------------------ *)
(* DatabaseStorage: queue operations                                    *)
(* ------------------------------------------------------------------ *)

\* SELECT * FROM queue WHERE user_id = userId ORDER BY position.  The order
\* of the rows is used by the page only to draw them; the callers modelled
\* here use the listing's length and its members.
getQueue(userId) == {r \in queue : r.userId = userId}

\* INSERT INTO queue VALUES ({...queueItem, userId}) RETURNING *: the row is
\* the request's fields with the serial id; joinedAt and updatedAt default
\* to now().
addToQueue(queueItem, userId) ==
    queue \cup {[id                |-> nextQueueId,
                 userId            |-> userId,
                 customerId        |-> queueItem.customerId,
                 serviceId         |-> queueItem.serviceId,
                 position          |-> queueItem.position,
                 status            |-> queueItem.status,
                 estimatedWaitTime |-> queueItem.estimatedWaitTime,
                 joinedAt          |-> clock,
                 updatedAt         |-> clock]}

\* UPDATE queue SET position = position, updated_at = now() WHERE id = id.
\* The estimate stored at admission is not among the columns set: it is not
\* brought in line with the new position.
updateQueuePositionReestimating(id, position) ==
    {IF r.id = id
        THEN [r EXCEPT !.position = position,
                       !.estimatedWaitTime =
                           (position - 1) * services[r.serviceId].duration,
                       !.updatedAt = clock]
        ELSE r : r \in queue}
updateQueuePosition(id, position) ==
    {IF r.id = id
        THEN [r EXCEPT !.position = position, !.updatedAt = clock]
        ELSE r : r \in queue}

\* UPDATE queue SET status = status, updated_at = now() WHERE id = id.  The
\* statement has no other SET clause and no other row in its WHERE: it does
\* not close the gap a completed entry leaves in the positions.
updateQueueStatusCompacting(id, status) ==
    {IF r.id = id
        THEN [r EXCEPT !.status = status, !.updatedAt = clock]
        ELSE IF /\ status = "completed"
                /\ \E d \in queue : /\ d.id = id
                                     /\ d.userId = r.userId
                                     /\ d.position < r.position
                THEN [r EXCEPT !.position = r.position - 1]
                ELSE r : r \in queue}
updateQueueStatus(id, status) ==
    {IF r.id = id
        THEN [r EXCEPT !.status = status, !.updatedAt = clock]
        ELSE r : r \in queue}

\* DELETE FROM queue WHERE id = id.
removeFromQueue(id) == {r \in queue : r.id # id}

(* ------------------------------------------------------------------ *)
(* DatabaseStorage and routes: services                                 *)
(* ------------------------------------------------------------------ *)

\* INSERT INTO services VALUES ({...service, userId}) RETURNING *: the row is
\* the request's fields with the serial id.
createService(service, userId) ==
    services @@ (nextServiceId :> [userId   |-> userId,
                                   duration |-> service.duration,
                                   isActive |-> service.isActive])

\* UPDATE services SET is_active = false WHERE id = id: the row stays.
deleteService(id) ==
    [s \in DOMAIN services |->
        IF s = id THEN [services[s] EXCEPT !.isActive = FALSE]
                  ELSE services[s]]

\* UPDATE services SET {...service} WHERE id = id: the fields present in the
\* patch replace the row's.  No other table is written.
updateService(id, service) ==
    [s \in DOMAIN services |->
        IF s = id
            THEN [f \in DOMAIN services[s] |->
                     IF f \in DOMAIN service THEN service[f]
                                             ELSE services[s][f]]
            ELSE services[s]]

\* PUT /api/services/:id: insertServiceSchema.partial() takes any integer
\* duration; any authenticated user, any id.
PutService(u, id, patch) ==
    /\ services' = updateService(id, patch)
    /\ last' = [op |-> "PUT /api/services/:id", user |-> u, id |-> id,
                code |-> 200]
    /\ UNCHANGED <<dayVars, offlineVars, network, queue, nextQueueId, appointments,
                   nextAppointmentId, queueData, form, timezoneOffset>>

\* POST /api/services: insertServiceSchema takes any integer duration; the
\* row belongs to the session's user.
PostService(u, body) ==
    /\ nextServiceId <= MaxServiceId
    /\ services' = createService(body, u)
    /\ nextServiceId' = nextServiceId + 1
    /\ last' = [op |-> "POST /api/services", user |-> u, id |-> nextServiceId,
                code |-> 200]
    /\ UNCHANGED <<dayVars, cart, tenantVars, reviews, nextReviewId, appointmentsData, servicesData, network,
                   queue, nextQueueId, appointments, nextAppointmentId,
                   queueData, form, timezoneOffset>>

\* storage.deleteService(id), the method itself: no route of the server
\* calls it.
DeleteService(id) ==
    /\ services' = deleteService(id)
    /\ UNCHANGED <<dayVars, offlineVars, network, queue, nextQueueId, appointments,
                   nextAppointmentId, queueData, form, timezoneOffset, last>>

(* ------------------------------------------------------------------ *)
(* Routes: /api/queue                                                   *)
(* ------------------------------------------------------------------ *)

\* What a request may carry.  insertQueueSchema takes any integer position
\* and estimate; PUT .../position and PUT .../status read the body unchecked.
QueueStatusInputs == QueueStatuses \cup {"cancelled"}
QueueIds == 1..MaxQueueId

OwnCustomers(u) == {c \in CustomerIds : customers[c].userId = u}
OwnServices(u) == {s \in DOMAIN services : services[s].userId = u}

\* POST /api/queue: userId is the session's user, the body is parsed by
\* insertQueueSchema and stored as it is.
PostQueue(u, body) ==
    /\ nextQueueId <= MaxQueueId
    /\ queue' = addToQueue(body, u)
    /\ nextQueueId' = nextQueueId + 1
    /\ last' = [op |-> "POST /api/queue", user |-> u, id |-> nextQueueId,
                code |-> 200]
    /\ UNCHANGED <<dayVars, offlineVars, network, services, appointments, nextAppointmentId, queueData, form,
                   timezoneOffset>>

\* PUT /api/queue/:id/position: any authenticated user u, any id, any
\* position; the handler does not read the session's user.
PutQueuePosition(u, id, position) ==
    /\ queue' = updateQueuePosition(id, position)
    /\ last' = [op |-> "PUT /api/queue/:id/position", user |-> u, id |-> id,
                code |-> 200]
    /\ UNCHANGED <<dayVars, offlineVars, network, services, nextQueueId, appointments, nextAppointmentId,
                   queueData, form, timezoneOffset>>

\* PUT /api/queue/:id/status, all of it but the network: any authenticated
\* user, any id, any string.
HandlePutQueueStatus(u, id, status) ==
    /\ queue' = updateQueueStatus(id, status)
    /\ last' = [op |-> "PUT /api/queue/:id/status", user |-> u, id |-> id,
                code |-> 200]
    /\ UNCHANGED <<dayVars, offlineVars, services, nextQueueId, appointments,
                   nextAppointmentId, queueData, form, timezoneOffset>>

\* PUT /api/queue/:id/status from a client that keeps no state of its own:
\* the request is sent and handled.
PutQueueStatus(u, id, status) ==
    /\ HandlePutQueueStatus(u, id, status)
    /\ UNCHANGED network

\* DELETE /api/queue/:id, all of it but the network.
HandleDeleteQueue(u, id) ==
    /\ queue' = removeFromQueue(id)
    /\ last' = [op |-> "DELETE /api/queue/:id", user |-> u, id |-> id,
                code |-> 200]
    /\ UNCHANGED <<dayVars, offlineVars, services, nextQueueId, appointments,
                   nextAppointmentId, queueData, form, timezoneOffset>>

\* DELETE /api/queue/:id from a client that keeps no state of its own.
DeleteQueue(u, id) ==
    /\ HandleDeleteQueue(u, id)
    /\ UNCHANGED network

(* ------------------------------------------------------------------ *)
(* Browser: QueueManagement page and the walk-in modal                  *)
(* ------------------------------------------------------------------ *)

\* Two browser sessions of the staff of shop u1.
Browsers == {"b1", "b2"}
BrowserUser(b) == "u1"

\* What is in flight between the pages and the server: a request a page has
\* sent and the server has not handled yet, or the answer to a GET or to the
\* form's POST that has not reached its page yet.  The page awaits the
\* network; the server handles the requests in any order.
Request(b, op, id) == [from |-> b, op |-> op, id |-> id]
RequestWith(b, op, id, body) == [from |-> b, op |-> op, id |-> id, body |-> body]
Answer(b, op, data) == [to |-> b, op |-> op, data |-> data]

Requests(op) == {m \in BagToSet(network) : "from" \in DOMAIN m /\ m.op = op}
Answers(op) == {m \in BagToSet(network) : "to" \in DOMAIN m /\ m.op = op}

\* The page sends m; the server takes m; the server takes m and answers a.
Send(m) ==
    /\ BagCardinality(network) < MaxInFlight
    /\ network' = network (+) SetToBag({m})
Take(m) == network' = network (-) SetToBag({m})
Reply(m, a) == network' = (network (-) SetToBag({m})) (+) SetToBag({a})

\* useQuery(["/api/queue"]), refetched every 5 s and after each mutation:
\* the request leaves the page.  A query has one fetch in flight at a time.
\* Before the first answer queueData is undefined, which every reader below
\* (queueData?.map, queueData?.length, queueData?.filter) treats as the
\* empty listing, so it is modelled as the empty listing.
FetchQueue(b) ==
    /\ ~ \E m \in Requests("GET /api/queue") : m.from = b
    /\ ~ \E m \in Answers("GET /api/queue") : m.to = b
    /\ Send(Request(b, "GET /api/queue", 0))
    /\ UNCHANGED <<shopVars, dayVars, offlineVars, last>>

\* GET /api/queue: the server runs the SELECT and answers with its result.
ServeGetQueue(m) ==
    /\ m \in Requests("GET /api/queue")
    /\ Reply(m, Answer(m.from, "GET /api/queue", getQueue(BrowserUser(m.from))))
    /\ UNCHANGED <<shopVars, dayVars, offlineVars, last>>

\* The answer reaches the page and becomes its queueData.
ReceiveQueue(m) ==
    /\ m \in Answers("GET /api/queue")
    /\ queueData' = [queueData EXCEPT ![m.to] = m.data]
    /\ Take(m)
    /\ UNCHANGED <<dayVars, offlineVars, services, queue, nextQueueId,
                   appointments, nextAppointmentId, form, timezoneOffset,
                   last>>

\* "Start Service" is drawn for the rows of the cached listing whose status
\* is 'waiting'; it sends PUT /api/queue/:id/status {status: 'in_progress'}.
\* Nothing disables the item while a mutation is pending.
ClickStartService(b, item) ==
    /\ item \in queueData[b]
    /\ item.status = "waiting"
    /\ Send(RequestWith(b, "PUT /api/queue/:id/status", item.id,
                        [status |-> "in_progress"]))
    /\ UNCHANGED <<shopVars, dayVars, offlineVars, last>>

\* "Complete Service" is drawn for the cached rows that are 'in_progress'.
ClickCompleteService(b, item) ==
    /\ item \in queueData[b]
    /\ item.status = "in_progress"
    /\ Send(RequestWith(b, "PUT /api/queue/:id/status", item.id,
                        [status |-> "completed"]))
    /\ UNCHANGED <<shopVars, dayVars, offlineVars, last>>

\* "Remove from Queue" is drawn for every cached row.
ClickRemoveFromQueue(b, item) ==
    /\ item \in queueData[b]
    /\ Send(Request(b, "DELETE /api/queue/:id", item.id))
    /\ UNCHANGED <<shopVars, dayVars, offlineVars, last>>

\* The server handles a page's PUT /api/queue/:id/status.  The page's
\* onSuccess invalidates the query, which is one more FetchQueue.
ServePutQueueStatus(m) ==
    /\ m \in Requests("PUT /api/queue/:id/status")
    /\ HandlePutQueueStatus(BrowserUser(m.from), m.id, m.body.status)
    /\ Take(m)

\* The server handles a page's DELETE /api/queue/:id.
ServeDeleteQueue(m) ==
    /\ m \in Requests("DELETE /api/queue/:id")
    /\ HandleDeleteQueue(BrowserUser(m.from), m.id)
    /\ Take(m)

\* AppointmentBookingModal.onSubmit with isWalkIn: the request object is
\* declared as `const queueData = { ..., position: queueData?.length ... }`
\* inside the if block.  The initialiser reads the constant it declares, which
\* is a ReferenceError (temporal dead zone): the handler throws before
\* calculateEstimatedWaitTime (the estimate of the page) is evaluated and
\* before any request is sent.
OnSubmitWalkIn(b, customerId, serviceId) ==
    /\ customerId >= 1
    /\ serviceId >= 1
    /\ last' = [op |-> "onSubmit", user |-> BrowserUser(b), id |-> 0,
                code |-> 0]
    /\ UNCHANGED <<dayVars, offlineVars, network, services, queue, nextQueueId, appointments,
                   nextAppointmentId, queueData, form, timezoneOffset>>

(* ------------------------------------------------------------------ *)
(* DatabaseStorage: appointment operations                              *)
(* ------------------------------------------------------------------ *)

\* Wall-clock times, in minutes from the start of the day shown.
Times == {15 * k : k \in 0..MaxSlot}
AppointmentIds == 1..MaxAppointmentId

\* INSERT INTO appointments VALUES ({...appointment, userId}) RETURNING *.
createAppointment(appointment, userId) ==
    appointments \cup {[id         |-> nextAppointmentId,
                        userId     |-> userId,
                        customerId |-> appointment.customerId,
                        serviceId  |-> appointment.serviceId,
                        startTime  |-> appointment.startTime,
                        endTime    |-> appointment.endTime,
                        status     |-> appointment.status]}

\* UPDATE appointments SET {...appointment} WHERE id = id: the fields present
\* in the patch replace the row's, the others stay.  In particular a patch
\* with a startTime and no endTime does not move the end with the start.
updateAppointmentRederiving(id, appointment) ==
    {IF r.id = id
        THEN [f \in DOMAIN r |->
                 IF f \in DOMAIN appointment THEN appointment[f]
                 ELSE IF f = "endTime" /\ "startTime" \in DOMAIN appointment
                     THEN appointment.startTime + services[r.serviceId].duration
                     ELSE r[f]]
        ELSE r : r \in appointments}
updateAppointment(id, appointment) ==
    {IF r.id = id
        THEN [f \in DOMAIN r |->
                 IF f \in DOMAIN appointment THEN appointment[f] ELSE r[f]]
        ELSE r : r \in appointments}

\* DELETE FROM appointments WHERE id = id.
deleteAppointment(id) == {r \in appointments : r.id # id}

(* ------------------------------------------------------------------ *)
(* Routes: /api/appointments                                            *)
(* ------------------------------------------------------------------ *)

\* How the startTime and the endTime of a body reach the handler: as the
\* strings express.json() makes of the request's JSON, or as Date objects
\* (a caller in the server's process; storage.createAppointment and
\* storage.updateAppointment take them so).
TimesAs == {"string", "Date"}

\* insertAppointmentSchema is createInsertSchema(appointments): the two
\* timestamp columns are z.date(), which takes a Date and throws on a string.
\* A body or a patch is refused when it has a time and its times are strings.
ParsesAppointment(body) ==
    ~ /\ "startTime" \in DOMAIN body \/ "endTime" \in DOMAIN body
      /\ body.timesAs = "string"

\* POST /api/appointments, all of it but the network: a body that
\* insertAppointmentSchema takes (any start, any end, any status string) is
\* stored as it is; when parse throws, the catch answers 500 and nothing is
\* stored.
HandlePostAppointment(u, body) ==
    /\ IF ParsesAppointment(body)
          THEN /\ nextAppointmentId <= MaxAppointmentId
               /\ appointments' = createAppointment(body, u)
               /\ nextAppointmentId' = nextAppointmentId + 1
               /\ last' = [op |-> "POST /api/appointments", user |-> u,
                           id |-> nextAppointmentId, code |-> 200]
          ELSE /\ UNCHANGED <<appointments, nextAppointmentId>>
               /\ last' = [op |-> "POST /api/appointments", user |-> u,
                           id |-> 0, code |-> 500]
    /\ UNCHANGED <<dayVars, offlineVars, services, queue, nextQueueId,
                   queueData, form, timezoneOffset>>

\* POST /api/appointments from a client that keeps no state of its own.
PostAppointment(u, body) ==
    /\ HandlePostAppointment(u, body)
    /\ UNCHANGED network

\* PUT /api/appointments/:id, all of it but the network:
\* insertAppointmentSchema.partial(), any id; when parse throws, the catch
\* answers 500 and the row is as it was.
HandlePutAppointment(u, id, patch) ==
    /\ IF ParsesAppointment(patch)
          THEN /\ appointments' = updateAppointment(id, patch)
               /\ last' = [op |-> "PUT /api/appointments/:id", user |-> u,
                           id |-> id, code |-> 200]
          ELSE /\ UNCHANGED appointments
               /\ last' = [op |-> "PUT /api/appointments/:id", user |-> u,
                           id |-> id, code |-> 500]
    /\ UNCHANGED <<dayVars, offlineVars, services, queue, nextQueueId,
                   nextAppointmentId, queueData, form, timezoneOffset>>

\* PUT /api/appointments/:id from a client that keeps no state of its own.
PutAppointment(u, id, patch) ==
    /\ HandlePutAppointment(u, id, patch)
    /\ UNCHANGED network

\* transactions.appointmentId and reviews.appointmentId are declared
\* references(() => appointments.id) with no onDelete action: the database
\* refuses (NO ACTION) to delete an appointment that a transaction or a
\* review names; it never lets one go unnoticed.
NeverReferenced(id) == FALSE
Referenced(id) ==
    \/ \E t \in transactions : t.appointmentId = id
    \/ \E r \in reviews : r.appointmentId = id

\* DELETE /api/appointments/:id, all of it but the network: when the DELETE
\* statement is refused the storage call throws and the route answers 500.
HandleDeleteAppointment(u, id) ==
    /\ IF Referenced(id)
          THEN /\ appointments' = appointments
               /\ last' = [op |-> "DELETE /api/appointments/:id", user |-> u,
                           id |-> id, code |-> 500]
          ELSE /\ appointments' = deleteAppointment(id)
               /\ last' = [op |-> "DELETE /api/appointments/:id", user |-> u,
                           id |-> id, code |-> 200]
    /\ UNCHANGED <<dayVars, offlineVars, services, queue, nextQueueId,
                   nextAppointmentId, queueData, form, timezoneOffset>>

\* DELETE /api/appointments/:id from a client that keeps no state of its own.
DeleteAppointment(u, id) ==
    /\ HandleDeleteAppointment(u, id)
    /\ UNCHANGED network

(* ------------------------------------------------------------------ *)
(* DatabaseStorage and routes: reviews                                  *)
(* ------------------------------------------------------------------ *)

\* INSERT INTO reviews VALUES ({...review, userId}) RETURNING *;
\* appointmentId 0 stands for NULL.
createReview(review, userId) ==
    reviews \cup {[id            |-> nextReviewId,
                   userId        |-> userId,
                   customerId    |-> review.customerId,
                   appointmentId |-> review.appointmentId,
                   rating        |-> review.rating]}

\* POST /api/reviews.  The INSERT is refused when the body names an
\* appointment that does not exist (the foreign key); the serial has been
\* drawn by then, the storage call throws and the route answers 500.
PostReview(u, body) ==
    /\ nextReviewId <= MaxReviewId
    /\ nextReviewId' = nextReviewId + 1
    /\ IF /\ body.appointmentId # 0
          /\ body.appointmentId \notin {a.id : a \in appointments}
          THEN /\ reviews' = reviews
               /\ last' = [op |-> "POST /api/reviews", user |-> u, id |-> 0,
                           code |-> 500]
          ELSE /\ reviews' = createReview(body, u)
               /\ last' = [op |-> "POST /api/reviews", user |-> u,
                           id |-> nextReviewId, code |-> 200]
    /\ UNCHANGED <<shopVars, dayVars, cart, tenantVars, nextServiceId,
                   appointmentsData, servicesData, network>>

(* ------------------------------------------------------------------ *)
(* Browser: Appointments page and the booking modal                     *)
(* ------------------------------------------------------------------ *)

\* The status items of an appointment's menu: "Start Service" on a scheduled
\* appointment, "Complete Service" on one in progress, "Cancel" on any.
MenuStatusItems(appointment) ==
    (IF appointment.status = "scheduled" THEN {"in_progress"} ELSE {})
    \cup (IF appointment.status = "in_progress" THEN {"completed"} ELSE {})
    \cup {"cancelled"}

\* SELECT * FROM appointments WHERE user_id = userId ORDER BY start_time
\* DESC; the page uses the order only to draw the rows.
getAppointments(userId) == {a \in appointments : a.userId = userId}

\* useQuery(["/api/appointments"]): the request leaves the page.  Before the
\* first answer the listing is undefined and nothing is drawn, which is the
\* empty listing.
FetchAppointments(b) ==
    /\ ~ \E m \in Requests("GET /api/appointments") : m.from = b
    /\ ~ \E m \in Answers("GET /api/appointments") : m.to = b
    /\ Send(Request(b, "GET /api/appointments", 0))
    /\ UNCHANGED <<shopVars, dayVars, offlineVars, last>>

\* GET /api/appointments: the server runs the SELECT and answers.
ServeGetAppointments(m) ==
    /\ m \in Requests("GET /api/appointments")
    /\ Reply(m, Answer(m.from, "GET /api/appointments",
                       getAppointments(BrowserUser(m.from))))
    /\ UNCHANGED <<shopVars, dayVars, offlineVars, last>>

\* The answer reaches the page and becomes its listing.
ReceiveAppointments(m) ==
    /\ m \in Answers("GET /api/appointments")
    /\ appointmentsData' = [appointmentsData EXCEPT ![m.to] = m.data]
    /\ Take(m)
    /\ UNCHANGED <<shopVars, dayVars, cart, tenantVars, recordVars,
                   servicesData, last>>

\* updateAppointmentStatusMutation: a status item of the menu of a row of
\* the page's listing sends PUT /api/appointments/:id {status}.
ClickAppointmentStatus(b, appointment, status) ==
    /\ appointment \in appointmentsData[b]
    /\ status \in MenuStatusItems(appointment)
    /\ Send(RequestWith(b, "PUT /api/appointments/:id", appointment.id,
                        [status |-> status]))
    /\ UNCHANGED <<shopVars, dayVars, offlineVars, last>>

\* The server handles a page's PUT /api/appointments/:id.
ServePutAppointment(m) ==
    /\ m \in Requests("PUT /api/appointments/:id")
    /\ HandlePutAppointment(BrowserUser(m.from), m.id, m.body)
    /\ Take(m)

\* deleteAppointmentMutation: "Delete" in the menu of a row of the page's
\* listing sends DELETE /api/appointments/:id.
ClickDeleteAppointment(b, appointment) ==
    /\ appointment \in appointmentsData[b]
    /\ Send(Request(b, "DELETE /api/appointments/:id", appointment.id))
    /\ UNCHANGED <<shopVars, dayVars, offlineVars, last>>

\* The server handles a page's DELETE /api/appointments/:id.
ServeDeleteAppointment(m) ==
    /\ m \in Requests("DELETE /api/appointments/:id")
    /\ HandleDeleteAppointment(BrowserUser(m.from), m.id)
    /\ Take(m)

\* The booking modal is open in a session of u1, in browser b1.
FormUser == "u1"
FormBrowser == "b1"

\* A form field holds <<>> while it is empty ("" or 0) and <<v>> otherwise.
EmptyForm == [serviceId |-> <<>>, startTime |-> <<>>, endTime |-> <<>>]

\* new Date(startTime) reads the datetime-local string as local time;
\* end.toISOString().slice(0, 16) writes the end in UTC.  In wall-clock
\* minutes: the local reading, moved to UTC, plus the duration.
computeEndTime(startTime, duration) == (startTime - timezoneOffset) + duration

\* SELECT * FROM services WHERE user_id = userId AND is_active = true ORDER
\* BY name: the rows as they are when the statement runs.  The modals use
\* the order only to draw the rows.
getServices(userId) ==
    [s \in {t \in DOMAIN services : /\ services[t].userId = userId
                                    /\ services[t].isActive} |-> services[s]]

\* useQuery(["/api/services"], enabled: isOpen) of the booking modal and of
\* the point-of-sale modal, which share the query cache of the session of
\* tenant u: the request leaves the page when a modal opens and whenever
\* the query is fetched again.  Before the first answer `services` is
\* undefined; services?.find and services?.map then give nothing, which is
\* the empty listing.
FetchServices(u) ==
    /\ ~ \E m \in Requests("GET /api/services") : m.from = u
    /\ ~ \E m \in Answers("GET /api/services") : m.to = u
    /\ Send(Request(u, "GET /api/services", 0))
    /\ UNCHANGED <<shopVars, dayVars, offlineVars, last>>

\* GET /api/services: the server runs the SELECT for the session's user and
\* answers with its result.
ServeGetServices(m) ==
    /\ m \in Requests("GET /api/services")
    /\ Reply(m, Answer(m.from, "GET /api/services", getServices(m.from)))
    /\ UNCHANGED <<shopVars, dayVars, offlineVars, last>>

\* The answer reaches the session and becomes the listing of its modals.
ReceiveServices(m) ==
    /\ m \in Answers("GET /api/services")
    /\ servicesData' = [servicesData EXCEPT ![m.to] = m.data]
    /\ Take(m)
    /\ UNCHANGED <<shopVars, dayVars, cart, tenantVars, recordVars,
                   appointmentsData, last>>

\* services?.find(s => s.id === serviceId) over the listing the modal
\* holds: the answer of GET /api/services as of its fetch, with the
\* durations the rows had then.
findService(serviceId) ==
    {s \in DOMAIN servicesData[FormUser] : s = serviceId}

\* The service Select's onValueChange: field.onChange, then
\* handleServiceChange, which sets endTime when the service is in the
\* modal's listing and a start time is present.
HandleServiceChange(serviceId) ==
    /\ form' = [form EXCEPT
                    !.serviceId = <<serviceId>>,
                    !.endTime =
                        IF findService(serviceId) # {} /\ form.startTime # <<>>
                            THEN <<computeEndTime(form.startTime[1],
                                      servicesData[FormUser][serviceId].duration)>>
                            ELSE @]
    /\ UNCHANGED <<dayVars, offlineVars, network, services, queue, nextQueueId, appointments,
                   nextAppointmentId, queueData, timezoneOffset, last>>

\* The start time input's onChange: field.onChange, then
\* handleStartTimeChange, which sets endTime when the selected service is
\* in the modal's listing.
HandleStartTimeChange(startTime) ==
    /\ form' = [form EXCEPT
                    !.startTime = <<startTime>>,
                    !.endTime =
                        IF form.serviceId # <<>>
                           /\ findService(form.serviceId[1]) # {}
                            THEN <<computeEndTime(startTime,
                                      servicesData[FormUser][form.serviceId[1]]
                                          .duration)>>
                            ELSE @]
    /\ UNCHANGED <<dayVars, offlineVars, network, services, queue, nextQueueId, appointments,
                   nextAppointmentId, queueData, timezoneOffset, last>>

\* The End Time input is an ordinary editable field.
EditEndTime(endTime) ==
    /\ form' = [form EXCEPT !.endTime = <<endTime>>]
    /\ UNCHANGED <<dayVars, offlineVars, network, services, queue, nextQueueId, appointments,
                   nextAppointmentId, queueData, timezoneOffset, last>>

\* onSubmit without isWalkIn and without appointmentToEdit: the form passes
\* appointmentFormSchema (a customer, a service, non-empty start and end) and
\* its values are sent to POST /api/appointments as JSON; the times are the
\* fields' strings.  The body has no status: the column default applies.
\* The submit button is disabled while the mutation is pending.
OnSubmitBooking(customerId) ==
    /\ customerId >= 1
    /\ form.serviceId # <<>>
    /\ form.startTime # <<>>
    /\ form.endTime # <<>>
    /\ ~ \E m \in Requests("POST /api/appointments") : m.from = FormBrowser
    /\ ~ \E m \in Answers("POST /api/appointments") : m.to = FormBrowser
    /\ Send(RequestWith(FormBrowser, "POST /api/appointments", 0,
                        [customerId |-> customerId,
                         serviceId  |-> form.serviceId[1],
                         startTime  |-> form.startTime[1],
                         endTime    |-> form.endTime[1],
                         status     |-> "scheduled",
                         timesAs    |-> "string"]))
    /\ UNCHANGED <<shopVars, dayVars, offlineVars, last>>

\* The server handles the form's POST /api/appointments and answers with
\* the status code.
ServePostAppointment(m) ==
    /\ m \in Requests("POST /api/appointments")
    /\ HandlePostAppointment(BrowserUser(m.from), m.body)
    /\ Reply(m, Answer(m.from, "POST /api/appointments",
                       IF ParsesAppointment(m.body) THEN 200 ELSE 500))

\* The answer reaches the modal: onSuccess closes it and resets the form,
\* onError shows a toast and leaves the form as it is.
ReceiveBookingAnswer(m) ==
    /\ m \in Answers("POST /api/appointments")
    /\ form' = IF m.data = 200 THEN EmptyForm ELSE form
    /\ Take(m)
    /\ UNCHANGED <<dayVars, offlineVars, services, queue, nextQueueId,
                   appointments, nextAppointmentId, queueData, timezoneOffset,
                   last>>

(* ------------------------------------------------------------------ *)
(* The server's clock and the day's window                              *)
(* ------------------------------------------------------------------ *)
MinutesPerDay == 1440

\* Time passes on the server, half a day at a step.
Tick ==
    /\ clock < MaxTick * (MinutesPerDay \div 2)
    /\ clock' = clock + (MinutesPerDay \div 2)
    /\ UNCHANGED <<shopVars, offlineVars, network, transactions, nextTransactionId, stats, todays,
                   last>>

\* today = new Date(); today.setHours(0, 0, 0, 0): the local midnight at or
\* before now.
Midnight(now) == now - (now % MinutesPerDay)

\* tomorrow = new Date(today); tomorrow.setDate(tomorrow.getDate() + 1).
DayAfter(today) == today + MinutesPerDay

(* ------------------------------------------------------------------ *)
(* DatabaseStorage and routes: today's appointments                     *)
(* ------------------------------------------------------------------ *)

\* ORDER BY start_time ASC: the orderings of a set of rows in which no row
\* comes before one that starts earlier (rows that start together may come
\* in either order).
Ascending(rows) ==
    {f \in [1..Cardinality(rows) -> rows] :
        \A i, j \in 1..Cardinality(rows) :
            i < j => f[i] # f[j] /\ f[i].startTime <= f[j].startTime}

\* SELECT * FROM appointments WHERE user_id = userId AND start_time = today
\* AND start_time = tomorrow ORDER BY start_time: both comparisons are eq().
getTodaysAppointments(userId) ==
    LET today == Midnight(clock)
        tomorrow == DayAfter(today)
    IN  Ascending({a \in appointments : /\ a.userId = userId
                                        /\ a.startTime = today
                                        /\ a.startTime = tomorrow})

\* GET /api/appointments/today.
GetTodaysAppointments(u) ==
    /\ todays' \in getTodaysAppointments(u)
    /\ last' = [op |-> "GET /api/appointments/today", user |-> u, id |-> 0,
                code |-> 200]
    /\ UNCHANGED <<shopVars, offlineVars, network, clock, transactions, nextTransactionId, stats>>

(* ------------------------------------------------------------------ *)
(* DatabaseStorage and routes: transactions                             *)
(* ------------------------------------------------------------------ *)

\* INSERT INTO transactions VALUES ({...transaction, userId}) RETURNING *:
\* createdAt defaults to now().  total is a decimal(10, 2), held here in
\* cents; appointmentId 0 stands for NULL.
createTransaction(transaction, userId) ==
    transactions \cup {[id            |-> nextTransactionId,
                        userId        |-> userId,
                        appointmentId |-> transaction.appointmentId,
                        total         |-> transaction.total,
                        status        |-> transaction.status,
                        createdAt     |-> clock]}

\* POST /api/transactions.  The INSERT is refused when the body names an
\* appointment that does not exist (the same foreign key); the serial has
\* been drawn by then, the storage call throws and the route answers 500.
PostTransaction(u, body) ==
    /\ nextTransactionId <= MaxTransactionId
    /\ nextTransactionId' = nextTransactionId + 1
    /\ IF /\ body.appointmentId # 0
          /\ body.appointmentId \notin {a.id : a \in appointments}
          THEN /\ transactions' = transactions
               /\ last' = [op |-> "POST /api/transactions", user |-> u,
                           id |-> 0, code |-> 500]
          ELSE /\ transactions' = createTransaction(body, u)
               /\ last' = [op |-> "POST /api/transactions", user |-> u,
                           id |-> nextTransactionId, code |-> 200]
    /\ UNCHANGED <<shopVars, offlineVars, network, clock, stats, todays>>

(* ------------------------------------------------------------------ *)
(* DatabaseStorage and routes: getDashboardStats                        *)
(* ------------------------------------------------------------------ *)

\* The call's locals (today, tomorrow, queueCount, appointmentCount,
\* queueItems) and the object it returns.  pc names the statement the call
\* is about to run; every await is a step of its own, so that other requests
\* and the clock can move between two sub-queries.  When the call returns,
\* the record keeps whose call it was, its window and the returned object.
IdleStats ==
    [pc                    |-> "idle",
     userId                |-> "none",
     today                 |-> 0,
     tomorrow              |-> 0,
     queueCount            |-> 0,
     appointmentCount      |-> 0,
     queueItems            |-> {},
     todayQueueCount       |-> 0,
     todayAppointmentCount |-> 0,
     averageWaitTime       |-> 0,
     todayRevenue          |-> 0]

\* GET /api/dashboard/stats, up to the first await: the window is computed
\* from the clock.  One call is followed at a time.
GetDashboardStats(u) ==
    /\ stats.pc \in {"idle", "done"}
    /\ stats' = [IdleStats EXCEPT !.pc = "queueCount",
                                  !.userId = u,
                                  !.today = Midnight(clock),
                                  !.tomorrow = DayAfter(Midnight(clock))]
    /\ UNCHANGED <<shopVars, offlineVars, network, clock, transactions, nextTransactionId, todays,
                   last>>

\* SELECT count(*) FROM queue WHERE user_id = userId.
SelectQueueCount ==
    /\ stats.pc = "queueCount"
    /\ stats' = [stats EXCEPT
                    !.pc = "appointmentCount",
                    !.queueCount =
                        Cardinality({r \in queue : r.userId = stats.userId})]
    /\ UNCHANGED <<shopVars, offlineVars, network, clock, transactions, nextTransactionId, todays,
                   last>>

\* The lower boundary the time-windowed sub-queries compare with is the
\* call's local constant `today`, not the midnight of the moment they run.
StatsTodayNow == Midnight(clock)
StatsToday == stats.today

\* SELECT count(*) FROM appointments WHERE user_id = userId
\* AND start_time = today AND start_time = tomorrow.
SelectAppointmentCount ==
    /\ stats.pc = "appointmentCount"
    /\ stats' = [stats EXCEPT
                    !.pc = "queueItems",
                    !.appointmentCount =
                        Cardinality({a \in appointments :
                                        /\ a.userId = stats.userId
                                        /\ a.startTime = StatsToday
                                        /\ a.startTime = stats.tomorrow})]
    /\ UNCHANGED <<shopVars, offlineVars, network, clock, transactions, nextTransactionId, todays,
                   last>>

\* SELECT * FROM queue WHERE user_id = userId.
SelectQueueItems ==
    /\ stats.pc = "queueItems"
    /\ stats' = [stats EXCEPT
                    !.pc = "todayTransactions",
                    !.queueItems = {r \in queue : r.userId = stats.userId}]
    /\ UNCHANGED <<shopVars, offlineVars, network, clock, transactions, nextTransactionId, todays,
                   last>>

\* queueItems.reduce((sum, item) => sum + (item.estimatedWaitTime || 0), 0).
\* A row stored without an estimate reads as 0 here and everywhere else, and
\* is held as 0.
RECURSIVE SumEstimates(_)
SumEstimates(queueItems) ==
    IF queueItems = {} THEN 0
    ELSE LET item == CHOOSE i \in queueItems : TRUE
         IN  (IF item.estimatedWaitTime # 0 THEN item.estimatedWaitTime ELSE 0)
             + SumEstimates(queueItems \ {item})

\* Math.round of the quotient num / den (den > 0) is floor(num / den + 1/2):
\* the integer nearest to the quotient, a half going up.  It is not the
\* quotient's integer part.
MathTrunc(num, den) == num \div den
MathRound(num, den) == (2 * num + den) \div (2 * den)

\* averageWaitTime as returned: Math.round of the sum over the length, or of
\* 0 when there are no rows.
averageWaitTime(queueItems) ==
    IF Cardinality(queueItems) > 0
        THEN MathRound(SumEstimates(queueItems), Cardinality(queueItems))
        ELSE MathRound(0, 1)

\* todayTransactions.reduce((sum, t) => sum + Number(t.total), 0), in cents.
RECURSIVE SumTotals(_)
SumTotals(todayTransactions) ==
    IF todayTransactions = {} THEN 0
    ELSE LET t == CHOOSE x \in todayTransactions : TRUE
         IN  t.total + SumTotals(todayTransactions \ {t})

\* SELECT * FROM transactions WHERE user_id = userId AND created_at = today
\* AND created_at = tomorrow; then the sum, the returned object and the
\* route's res.json.
SelectTodayTransactions ==
    /\ stats.pc = "todayTransactions"
    /\ LET todayTransactions ==
               {t \in transactions : /\ t.userId = stats.userId
                                     /\ t.createdAt = StatsToday
                                     /\ t.createdAt = stats.tomorrow}
       IN  stats' = [IdleStats EXCEPT
                        !.pc = "done",
                        !.userId = stats.userId,
                        !.today = stats.today,
                        !.tomorrow = stats.tomorrow,
                        !.todayQueueCount = stats.queueCount,
                        !.todayAppointmentCount = stats.appointmentCount,
                        !.averageWaitTime = averageWaitTime(stats.queueItems),
                        !.todayRevenue = SumTotals(todayTransactions)]
    /\ last' = [op |-> "GET /api/dashboard/stats", user |-> stats.userId,
                id |-> 0, code |-> 200]
    /\ UNCHANGED <<shopVars, offlineVars, network, clock, transactions, nextTransactionId, todays>>

\* The steps of a getDashboardStats call.
StatsSteps ==
    \/ \E u \in Users : GetDashboardStats(u)
    \/ SelectQueueCount
    \/ SelectAppointmentCount
    \/ SelectQueueItems
    \/ SelectTodayTransactions

(* ------------------------------------------------------------------ *)
(* DatabaseStorage: onboarding                                          *)
(* ------------------------------------------------------------------ *)

\* The locals of a completeOnboarding call: the statement it is about to
\* run, generateSubdomain's baseSubdomain, subdomain and counter, and the
\* barbers of data.barbers the for loop has not created yet.
IdleOnboarding ==
    [pc |-> "idle", baseSubdomain |-> <<>>, subdomain |-> <<>>, counter |-> 0,
     barbers |-> <<>>]

\* Strings are sequences of one-character strings.  NULL, the value of a
\* subdomain column that was never written, is no string: eq() matches no
\* row on it and the unique index holds any number of them.
Null == <<"NULL">>

Digits == <<"0", "1", "2", "3", "4", "5", "6", "7", "8", "9">>

\* String.prototype.toLowerCase, on one character.
toLowerCase(c) ==
    CASE c = "J" -> "j"
      [] c = "O" -> "o"
      [] OTHER -> c

\* The class [a-z0-9] of the regular expression.
IsLowerAlnum(c) ==
    c \in {"a", "j", "o"} \/ \E d \in 1..Len(Digits) : Digits[d] = c

\* `${counter}`: the decimal digits of a positive integer.
RECURSIVE CounterString(_)
CounterString(n) ==
    IF n < 10
    THEN <<Digits[n + 1]>>
    ELSE CounterString(n \div 10) \o <<Digits[(n % 10) + 1]>>

\* businessName.toLowerCase().replace(/[^a-z0-9]/g, '').slice(0, 20)
BaseSubdomain(businessName) ==
    LET lowered == [i \in 1..Len(businessName) |-> toLowerCase(businessName[i])]
        kept    == SelectSeq(lowered, IsLowerAlnum)
    IN  SubSeq(kept, 1, IF Len(kept) < SubdomainLength THEN Len(kept)
                        ELSE SubdomainLength)

\* The mutation of the unique index: an index that refuses nothing.
NeverTaken(u, subdomain) == FALSE

\* The unique index on users.subdomain: writing a subdomain to the row of u
\* is refused when another row holds the same one.  NULLs never collide.
SubdomainTaken(u, subdomain) ==
    /\ subdomain # Null
    /\ \E v \in DOMAIN users : v # u /\ users[v].subdomain = subdomain

\* upsertUser(userData): INSERT ... ON CONFLICT (id) DO UPDATE SET
\* {...userData, updatedAt}.  A new id gets a row of the given fields and the
\* column defaults; an existing row gets the given fields.  The unique index
\* on the subdomain refuses either and the call throws.
UpsertUser(userData) ==
    LET id == userData.id
        old == IF id \in DOMAIN users THEN users[id]
               ELSE [subdomain |-> Null, isOnboarded |-> FALSE]
        row == [f \in DOMAIN old |->
                   IF f \in DOMAIN userData THEN userData[f] ELSE old[f]]
    IN  /\ IF SubdomainTaken(id, row.subdomain)
              THEN /\ UNCHANGED users
                   /\ last' = [op |-> "upsertUser", user |-> id, id |-> 0,
                               code |-> 500]
              ELSE /\ users' = IF id \in DOMAIN users
                                  THEN [users EXCEPT ![id] = row]
                                  ELSE users @@ (id :> row)
                   /\ last' = [op |-> "upsertUser", user |-> id, id |-> 0,
                               code |-> 200]
        /\ UNCHANGED <<shopVars, dayVars, cart, onboarding, barbers,
                       nextBarberId, recordVars, appointmentsData, servicesData, network>>

\* INSERT INTO barbers VALUES ({...barber, userId}) RETURNING *.
createBarber(barber, userId) ==
    barbers \cup {[id |-> nextBarberId, userId |-> userId,
                   name |-> barber.name]}

\* completeOnboarding(userId, data) up to the first await of
\* generateSubdomain: the base is computed, the candidate is the base and
\* the counter is 1.
CompleteOnboarding(u, data) ==
    /\ onboarding[u].pc = "idle"
    /\ onboarding' = [onboarding EXCEPT ![u] =
            [pc            |-> "select",
             baseSubdomain |-> BaseSubdomain(data.barbershopName),
             subdomain     |-> BaseSubdomain(data.barbershopName),
             counter       |-> 1,
             barbers       |-> data.barbers]]
    /\ UNCHANGED <<shopVars, dayVars, cart, users, barbers, nextBarberId,
                   recordVars, appointmentsData, servicesData, network, last>>

\* One turn of generateSubdomain's loop: the select on users.subdomain, and
\* either the break (the candidate is returned and the update is next) or
\* the next candidate, the base followed by the counter.
SelectSubdomain(u) ==
    /\ onboarding[u].pc = "select"
    /\ LET call     == onboarding[u]
           existing == \E v \in DOMAIN users :
                          users[v].subdomain = call.subdomain
       IN  onboarding' = [onboarding EXCEPT ![u] =
               IF ~existing
               THEN [call EXCEPT !.pc = "update"]
               ELSE [call EXCEPT
                        !.subdomain = call.baseSubdomain
                                         \o CounterString(call.counter),
                        !.counter   = call.counter + 1]]
    /\ UNCHANGED <<shopVars, dayVars, cart, users, barbers, nextBarberId,
                   recordVars, appointmentsData, servicesData, network, last>>

\* The update of the user's row with the subdomain generateSubdomain
\* returned.  The database refuses it when the unique index is violated; the
\* call then throws and the row is as it was.  Otherwise the row is written
\* and the for loop over data.barbers is next; with no barber the call
\* returns.
UpdateUser(u) ==
    /\ onboarding[u].pc = "update"
    /\ LET call == onboarding[u]
       IN  IF SubdomainTaken(u, call.subdomain)
           THEN /\ UNCHANGED users
                /\ onboarding' = [onboarding EXCEPT ![u] = IdleOnboarding]
                /\ last' = [op |-> "completeOnboarding", user |-> u,
                            id |-> 0, code |-> 500]
           ELSE /\ users' = [users EXCEPT ![u] =
                        [subdomain   |-> call.subdomain,
                         isOnboarded |-> TRUE]]
                /\ IF call.barbers = <<>>
                      THEN /\ onboarding' =
                                  [onboarding EXCEPT ![u] = IdleOnboarding]
                           /\ last' = [op |-> "completeOnboarding",
                                       user |-> u, id |-> 0, code |-> 200]
                      ELSE /\ onboarding' = [onboarding EXCEPT ![u] =
                                  [call EXCEPT !.pc = "createBarber"]]
                           /\ UNCHANGED last
    /\ UNCHANGED <<shopVars, dayVars, cart, barbers, nextBarberId,
                   recordVars, appointmentsData, servicesData, network>>

\* One turn of the for loop: await this.createBarber(barberData, userId).
\* barbers.name is NOT NULL: the INSERT of a barber without a name is
\* refused (the serial has been drawn by then), the call throws and the
\* user's row stays as the update wrote it.  After the last barber the call
\* returns.
CreateBarber(u) ==
    /\ onboarding[u].pc = "createBarber"
    /\ nextBarberId <= MaxBarberId
    /\ nextBarberId' = nextBarberId + 1
    /\ LET call       == onboarding[u]
           barberData == Head(call.barbers)
       IN  IF barberData.name = Null
           THEN /\ UNCHANGED barbers
                /\ onboarding' = [onboarding EXCEPT ![u] = IdleOnboarding]
                /\ last' = [op |-> "completeOnboarding", user |-> u,
                            id |-> 0, code |-> 500]
           ELSE /\ barbers' = createBarber(barberData, u)
                /\ IF Tail(call.barbers) = <<>>
                      THEN /\ onboarding' =
                                  [onboarding EXCEPT ![u] = IdleOnboarding]
                           /\ last' = [op |-> "completeOnboarding",
                                       user |-> u, id |-> 0, code |-> 200]
                      ELSE /\ onboarding' = [onboarding EXCEPT ![u] =
                                  [call EXCEPT !.barbers = Tail(call.barbers)]]
                           /\ UNCHANGED last
    /\ UNCHANGED <<shopVars, dayVars, cart, users, recordVars, appointmentsData, servicesData, network>>

\* storage.updateBarber(id, barber), the method itself: no route of the
\* server calls it.  UPDATE barbers SET {...barber} WHERE id = id; the patch
\* carries a name, and a name that is null is refused by NOT NULL.
UpdateBarber(id, barber) ==
    /\ barber.name # Null
    /\ barbers' = {IF r.id = id THEN [r EXCEPT !.name = barber.name] ELSE r :
                      r \in barbers}
    /\ UNCHANGED <<shopVars, dayVars, cart, users, onboarding, nextBarberId,
                   recordVars, appointmentsData, servicesData, network, last>>

\* storage.deleteBarber(id), the method itself: DELETE FROM barbers WHERE
\* id = id.  No table references barbers.
DeleteBarber(id) ==
    /\ barbers' = {r \in barbers : r.id # id}
    /\ UNCHANGED <<shopVars, dayVars, cart, users, onboarding, nextBarberId,
                   recordVars, appointmentsData, servicesData, network, last>>

(* ------------------------------------------------------------------ *)
(* POSModal: the cart                                                   *)
(* ------------------------------------------------------------------ *)
\* A cart line is {serviceId, serviceName, price, quantity}; the name and
\* the price are copied from the service when the line is created and no
\* handler changes them, so a line is kept as its serviceId and quantity.
\* The handlers read the cart of the render they were created in; React
\* renders again after every event, so each handler runs on the cart the
\* previous one left.

\* cart.find(item => item.serviceId === service.id): the index of the first
\* line of the service, 0 when there is none.
findItem(items, serviceId) ==
    IF \E i \in 1..Len(items) : items[i].serviceId = serviceId
    THEN CHOOSE i \in 1..Len(items) :
            /\ items[i].serviceId = serviceId
            /\ \A j \in 1..(i - 1) : items[j].serviceId # serviceId
    ELSE 0

\* addToCart(service): one more of an existing line, a new line of quantity
\* 1 at the end otherwise.
addToCart(items, serviceId) ==
    IF findItem(items, serviceId) # 0
    THEN [i \in 1..Len(items) |->
            IF items[i].serviceId = serviceId
            THEN [items[i] EXCEPT !.quantity = @ + 1]
            ELSE items[i]]
    ELSE Append(items, [serviceId |-> serviceId, quantity |-> 1])

\* removeFromCart(serviceId): cart.filter(item => item.serviceId !== serviceId).
removeFromCart(items, serviceId) ==
    LET Keep(item) == item.serviceId # serviceId
    IN  SelectSeq(items, Keep)

\* The same handler without its first branch: the quantity is stored whatever
\* it is.
updateQuantityStoring(items, serviceId, quantity) ==
    [i \in 1..Len(items) |->
        IF items[i].serviceId = serviceId
        THEN [items[i] EXCEPT !.quantity = quantity]
        ELSE items[i]]

\* updateQuantity(serviceId, quantity): a quantity of zero or less removes
\* the line, any other is stored on the line of the service.
updateQuantity(items, serviceId, quantity) ==
    IF quantity <= 0
    THEN removeFromCart(items, serviceId)
    ELSE [i \in 1..Len(items) |->
            IF items[i].serviceId = serviceId
            THEN [items[i] EXCEPT !.quantity = quantity]
            ELSE items[i]]

\* A click on a service card.  The modal draws one card per row of the
\* listing it holds (services?.map), whatever has become of the row in the
\* table since the fetch.
AddToCart(u, serviceId) ==
    /\ serviceId \in DOMAIN servicesData[u]
    /\ \A i \in 1..Len(cart[u]) : cart[u][i].quantity < MaxQuantity
    /\ cart' = [cart EXCEPT ![u] = addToCart(cart[u], serviceId)]
    /\ UNCHANGED <<shopVars, dayVars, tenantVars, recordVars, appointmentsData, servicesData, network, last>>

\* A click on the bin of a line.
RemoveFromCart(u, serviceId) ==
    /\ \E i \in 1..Len(cart[u]) : cart[u][i].serviceId = serviceId
    /\ cart' = [cart EXCEPT ![u] = removeFromCart(cart[u], serviceId)]
    /\ UNCHANGED <<shopVars, dayVars, tenantVars, recordVars, appointmentsData, servicesData, network, last>>

\* updateQuantity called for a line of the cart; the minus and plus buttons
\* call it with the line's quantity less one and plus one.
UpdateQuantity(u, serviceId, quantity) ==
    /\ \E i \in 1..Len(cart[u]) : cart[u][i].serviceId = serviceId
    /\ cart' = [cart EXCEPT ![u] = updateQuantity(cart[u], serviceId, quantity)]
    /\ UNCHANGED <<shopVars, dayVars, tenantVars, recordVars, appointmentsData, servicesData, network, last>>

\* handleClose(): the dialog is closed, by the user or by the mutation's
\* onSuccess; setCart([]) empties the cart.
HandleClose(u) ==
    /\ cart' = [cart EXCEPT ![u] = <<>>]
    /\ UNCHANGED <<shopVars, dayVars, tenantVars, recordVars, appointmentsData, servicesData, network, last>>

(* ------------------------------------------------------------------ *)
(* Initial state and next-state relations                               *)
(* ------------------------------------------------------------------ *)

Init ==
    /\ services = InitialServices
    /\ queue = {}
    /\ nextQueueId = 1
    /\ appointments = {}
    /\ nextAppointmentId = 1
    /\ queueData = [b \in Browsers |-> {}]
    /\ form = EmptyForm
    /\ timezoneOffset \in {0, 60}
    /\ clock = 0
    /\ transactions = {}
    /\ nextTransactionId = 1
    /\ stats = IdleStats
    /\ todays = <<>>
    /\ cart = [u \in Users |-> <<>>]
    /\ users = [u \in Users |-> [subdomain |-> Null, isOnboarded |-> FALSE]]
    /\ onboarding = [u \in Users |-> IdleOnboarding]
    /\ barbers = {}
    /\ nextBarberId = 1
    /\ reviews = {}
    /\ nextReviewId = 1
    /\ nextServiceId = 4
    /\ network = EmptyBag
    /\ appointmentsData = [b \in Browsers |-> {}]
    /\ servicesData = [u \in Users |-> [s \in {} |-> s]]
    /\ last = [op |-> "none", user |-> "none", id |-> 0, code |-> 0]

\* Request bodies of POST /api/queue that differ in the position: the
\* tenant's own customer, its 30 minute service, a position of the caller's
\* choosing, no status (the column default 'waiting' applies).
QueueBodies(u) ==
    [customerId        : OwnCustomers(u),
     serviceId         : {s \in OwnServices(u) : services[s].duration = 30},
     position          : 1..MaxPosition,
     status            : {"waiting"},
     estimatedWaitTime : {0}]

\* Request bodies of POST /api/queue that differ in the service and in the
\* estimate; the position is the length of the tenant's listing plus one.
EstimateBodies(u) ==
    [customerId        : OwnCustomers(u),
     serviceId         : OwnServices(u),
     position          : {Cardinality(getQueue(u)) + 1},
     status            : {"waiting"},
     estimatedWaitTime : {0, 30}]

\* Request bodies of POST /api/appointments, from the network and from the
\* server's process.
AppointmentBodies(u) ==
    [customerId : OwnCustomers(u),
     serviceId  : OwnServices(u),
     startTime  : Times,
     endTime    : Times,
     status     : {"scheduled"},
     timesAs    : TimesAs]

\* Request bodies of POST /api/appointments whose end is the start plus the
\* duration of the service.
WellFormedBodies(u) ==
    {body \in AppointmentBodies(u) :
        body.endTime = body.startTime + services[body.serviceId].duration}

\* Patches of PUT /api/appointments/:id that change only the start or only
\* the end.
TimePatches ==
    [startTime : Times, timesAs : TimesAs]
        \cup [endTime : Times, timesAs : TimesAs]

\* Request bodies of POST /api/queue at the end of the listing, with a small
\* estimate.
StatsQueueBodies(u) ==
    [customerId        : OwnCustomers(u),
     serviceId         : {s \in OwnServices(u) : services[s].duration = 30},
     position          : {Cardinality(getQueue(u)) + 1},
     status            : {"waiting"},
     estimatedWaitTime : 0..MaxEstimate]

\* Request bodies of POST /api/appointments that start at one of the
\* midnights the clock can reach and last half an hour.
DayStarts == {k * MinutesPerDay : k \in 0..(MaxTick \div 2)}
DayBodies(u) ==
    {body \in [customerId : OwnCustomers(u),
               serviceId  : {s \in OwnServices(u) : services[s].duration = 30},
               startTime  : DayStarts,
               endTime    : {t + 30 : t \in DayStarts},
               status     : {"scheduled"},
               timesAs    : {"Date"}] :
        body.endTime = body.startTime + 30}

\* Request bodies of POST /api/transactions: 20.00 pending or 35.00
\* completed, no appointment.
TransactionBodies ==
    {[appointmentId |-> 0, total |-> 2000, status |-> "pending"],
     [appointmentId |-> 0, total |-> 3500, status |-> "completed"]}

\* Request bodies of POST /api/queue and POST /api/appointments that name any
\* stored customer and any stored service.
AnyQueueBodies ==
    [customerId        : CustomerIds,
     serviceId         : ServiceIds,
     position          : {1},
     status            : {"waiting"},
     estimatedWaitTime : {0}]
AnyAppointmentBodies ==
    [customerId : CustomerIds,
     serviceId  : ServiceIds,
     startTime  : {0},
     endTime    : {30},
     status     : {"scheduled"},
     timesAs    : TimesAs]

\* Request bodies of POST /api/queue for the 30 minute service of the
\* tenant, at the end of the listing, with the estimate of one service ahead.
ServiceQueueBodies(u) ==
    [customerId        : OwnCustomers(u),
     serviceId         : {s \in OwnServices(u) \cap ServiceIds :
                             InitialServices[s].duration = 30},
     position          : {Cardinality(getQueue(u)) + 1},
     status            : {"waiting"},
     estimatedWaitTime : {30}]

\* Patches of PUT /api/services/:id that change the duration.
DurationPatches == [duration : {15, 45}]

\* Request bodies of POST /api/queue whose estimate is any integer the
\* schema takes.
SignedQueueBodies(u) ==
    [customerId        : OwnCustomers(u),
     serviceId         : OwnServices(u),
     position          : {Cardinality(getQueue(u)) + 1},
     status            : {"waiting"},
     estimatedWaitTime : {-30, 0, 30}]

\* Request bodies of POST /api/transactions that name an appointment id or
\* none.
LedgerBodies ==
    [appointmentId : 0..MaxAppointmentId,
     total         : {2000},
     status        : {"completed"}]

\* Request bodies of POST /api/queue and POST /api/appointments that carry a
\* status: the insert schemas leave the status column in.
StatusQueueBodies(u) ==
    [customerId        : OwnCustomers(u),
     serviceId         : {s \in OwnServices(u) : services[s].duration = 30},
     position          : {Cardinality(getQueue(u)) + 1},
     status            : QueueStatusInputs,
     estimatedWaitTime : {0}]
StatusAppointmentBodies(u) ==
    [customerId : OwnCustomers(u),
     serviceId  : {s \in OwnServices(u) : services[s].duration = 30},
     startTime  : {0},
     endTime    : {30},
     status     : AppointmentStatuses,
     timesAs    : TimesAs]

\* An identifier that is the id of no row of the users table at the start.
UnknownUser == "u0"

\* Arguments of upsertUser: the id of a new user alone, and the id of a new
\* or of a stored user with a subdomain and the onboarding flag.
UpsertUsers ==
    [id : {UnknownUser}]
        \cup [id          : {"u1", UnknownUser},
              subdomain   : {<<"j", "o">>},
              isOnboarded : {FALSE}]

\* data.barbers: no barber, one barber, a barber and one without a name.
BarberLists ==
    { <<>>,
      <<[name |-> <<"A", "l">>]>>,
      <<[name |-> <<"A", "l">>], [name |-> Null]>> }

\* The queue API, called directly.
NextQueue ==
    \/ \E u \in Users : \E body \in QueueBodies(u) : PostQueue(u, body)
    \/ \E u \in Users, id \in QueueIds, p \in 1..MaxPosition :
          PutQueuePosition(u, id, p)
    \/ \E u \in Users, id \in QueueIds, st \in QueueStatusInputs :
          PutQueueStatus(u, id, st)
    \/ \E u \in Users, id \in QueueIds : DeleteQueue(u, id)

\* The appointment API, called directly.
NextAppointments ==
    \/ \E u \in Users : \E body \in AppointmentBodies(u) :
          PostAppointment(u, body)
    \/ \E u \in Users, id \in AppointmentIds, patch \in [status : AppointmentStatuses] :
          PutAppointment(u, id, patch)
    \/ \E u \in Users, id \in AppointmentIds : DeleteAppointment(u, id)

\* The Appointments page open in two browsers of the same shop: each
\* fetches the listing and acts on the copy it holds, while the server
\* handles what they sent in any order.
NextAppointmentsPage ==
    \/ \E body \in StatusAppointmentBodies("u1") :
          /\ nextAppointmentId <= MaxPageAppointments
          /\ body.status = "scheduled"
          /\ body.timesAs = "Date"
          /\ PostAppointment("u1", body)
    \/ \E b \in Browsers : FetchAppointments(b)
    \/ \E m \in BagToSet(network) : ServeGetAppointments(m)
    \/ \E m \in BagToSet(network) : ReceiveAppointments(m)
    \/ \E b \in Browsers : \E a \in appointmentsData[b] :
          \E st \in AppointmentStatuses : ClickAppointmentStatus(b, a, st)
    \/ \E m \in BagToSet(network) : ServePutAppointment(m)
    \/ \E b \in Browsers : \E a \in appointmentsData[b] :
          ClickDeleteAppointment(b, a)
    \/ \E m \in BagToSet(network) : ServeDeleteAppointment(m)

\* Admissions with an estimate, and the status changes and removals that
\* change the number of waiting entries.
NextEstimates ==
    \/ \E body \in EstimateBodies("u1") : PostQueue("u1", body)
    \/ \E id \in QueueIds, st \in QueueStatuses : PutQueueStatus("u1", id, st)
    \/ \E id \in QueueIds : DeleteQueue("u1", id)

\* The QueueManagement page open in two browsers of the same shop: each
\* polls the listing and acts on the copy it holds, while the server
\* handles what they sent in any order.  A few entries are admitted by
\* POST /api/queue at the end of the listing.
NextBrowsers ==
    \/ \E body \in QueueBodies("u1") :
          /\ nextQueueId <= MaxPageEntries
          /\ body.position = Cardinality(getQueue("u1")) + 1
          /\ PostQueue("u1", body)
    \/ \E b \in Browsers : FetchQueue(b)
    \/ \E m \in BagToSet(network) : ServeGetQueue(m)
    \/ \E m \in BagToSet(network) : ReceiveQueue(m)
    \/ \E m \in BagToSet(network) : ServePutQueueStatus(m)
    \/ \E m \in BagToSet(network) : ServeDeleteQueue(m)
    \/ \E b \in Browsers : \E item \in queueData[b] :
          ClickStartService(b, item)
    \/ \E b \in Browsers : \E item \in queueData[b] :
          ClickCompleteService(b, item)
    \/ \E b \in Browsers : \E item \in queueData[b] :
          ClickRemoveFromQueue(b, item)
    \/ \E b \in Browsers, c \in OwnCustomers("u1"), s \in OwnServices("u1") :
          OnSubmitWalkIn(b, c, s)

\* The booking modal: the fetch of its listing of services, the form's
\* handlers on the options the listing draws and its submission, while the
\* services of the tenant are changed and taken off the list.
NextBooking ==
    \/ FetchServices(FormUser)
    \/ \E m \in BagToSet(network) : ServeGetServices(m)
    \/ \E m \in BagToSet(network) : ReceiveServices(m)
    \/ \E id \in OwnServices(FormUser) :
          /\ services[id].duration = 30
          /\ PutService(FormUser, id, [duration |-> 45])
    \/ \E id \in OwnServices(FormUser) : DeleteService(id)
    \/ \E s \in DOMAIN servicesData[FormUser] : HandleServiceChange(s)
    \/ \E t \in Times : HandleStartTimeChange(t)
    \/ \E t \in Times : EditEndTime(t)
    \/ \E c \in OwnCustomers(FormUser) : OnSubmitBooking(c)
    \/ \E m \in BagToSet(network) : ServePostAppointment(m)
    \/ \E m \in BagToSet(network) : ReceiveBookingAnswer(m)

\* Bookings of the 30 minute service with a well-formed interval, made in
\* the server's process, and the reschedules that follow.
NextReschedule ==
    \/ \E body \in WellFormedBodies("u1") :
          /\ body.timesAs = "Date"
          /\ services[body.serviceId].duration = 30
          /\ PostAppointment("u1", body)
    \/ \E id \in AppointmentIds, patch \in TimePatches :
          PutAppointment("u1", id, patch)

\* The dashboard of a day at the queue: admissions and removals, the
\* clock, and a stats call whose sub-queries they interleave with.
NextStatsQueue ==
    \/ \E u \in Users : \E body \in StatsQueueBodies(u) : PostQueue(u, body)
    \/ Tick
    \/ StatsSteps

\* The dashboard of a day at the desk: bookings and payments, the clock,
\* the list of today's appointments and a stats call.
NextDesk ==
    \/ \E body \in DayBodies("u1") : PostAppointment("u1", body)
    \/ \E body \in TransactionBodies : PostTransaction("u1", body)
    \/ Tick
    \/ \E u \in Users : GetTodaysAppointments(u)
    \/ StatsSteps

\* The id-addressed queue routes, called by either tenant with any id and
\* any position, on entries admitted at the end of their tenant's listing.
NextQueueRequests ==
    \/ \E u \in Users : \E body \in QueueBodies(u) :
          /\ body.position = Cardinality(getQueue(u)) + 1
          /\ PostQueue(u, body)
    \/ \E u \in Users, id \in QueueIds, p \in 0..MaxPosition :
          PutQueuePosition(u, id, p)
    \/ \E u \in Users, id \in QueueIds :
          PutQueueStatus(u, id, "in_progress")
    \/ \E u \in Users, id \in QueueIds : DeleteQueue(u, id)

\* Admissions and bookings that name any customer and any service.
NextReferences ==
    \/ \E u \in Users, body \in AnyQueueBodies : PostQueue(u, body)
    \/ \E u \in Users, body \in AnyAppointmentBodies :
          /\ body.timesAs = "Date"
          /\ PostAppointment(u, body)

\* A queue whose entries were admitted with an estimate, and everything
\* that happens to it afterwards: repositions, advances, removals, and
\* changes of the duration of the service.
NextServices ==
    \/ \E body \in ServiceQueueBodies("u1") : PostQueue("u1", body)
    \/ \E id \in QueueIds, p \in 1..MaxPosition :
          PutQueuePosition("u1", id, p)
    \/ \E id \in QueueIds : PutQueueStatus("u1", id, "in_progress")
    \/ \E id \in QueueIds : DeleteQueue("u1", id)
    \/ \E id \in OwnServices("u1") \cap ServiceIds, patch \in DurationPatches :
          /\ InitialServices[id].duration = 30
          /\ PutService("u1", id, patch)

\* Admissions, new services and service updates of one tenant, with any
\* integer the schemas take.
NextSigned ==
    \/ \E body \in SignedQueueBodies("u1") : PostQueue("u1", body)
    \/ \E id \in OwnServices("u1"), patch \in [duration : {-15, 0, 15}] :
          PutService("u1", id, patch)
    \/ \E body \in [duration : {-20, 30}, isActive : {TRUE}] :
          PostService("u1", body)
    \/ \E id \in DOMAIN services \ ServiceIds : DeleteService(id)

\* getDashboardStats called with the id of a user or with an unknown id,
\* while entries are admitted.
NextUnknownTenant ==
    \/ \E u \in Users : \E body \in StatsQueueBodies(u) : PostQueue(u, body)
    \/ \E u \in Users \cup {UnknownUser} : GetDashboardStats(u)
    \/ SelectQueueCount
    \/ SelectAppointmentCount
    \/ SelectQueueItems
    \/ SelectTodayTransactions

\* Bookings of one tenant, the payments taken and the reviews left for
\* them, and removals of appointments.
NextLedger ==
    \/ \E body \in AnyAppointmentBodies :
          /\ body.timesAs = "Date"
          /\ body.customerId \in OwnCustomers("u1")
          /\ body.serviceId \in OwnServices("u1")
          /\ PostAppointment("u1", body)
    \/ \E body \in LedgerBodies : PostTransaction("u1", body)
    \/ \E body \in [customerId    : {1},
                    appointmentId : 0..MaxAppointmentId,
                    rating        : {5}] : PostReview("u1", body)
    \/ \E id \in AppointmentIds : DeleteAppointment("u1", id)

\* Admissions and bookings whose body carries a status.
NextStatusBodies ==
    \/ \E u \in Users : \E body \in StatusQueueBodies(u) : PostQueue(u, body)
    \/ \E u \in Users : \E body \in StatusAppointmentBodies(u) :
          PostAppointment(u, body)

\* The point-of-sale modal of each tenant: the listing of the services is
\* fetched, services are put in the cart, their quantities set, lines
\* removed and the modal closed, while services are taken off the list.
NextCart ==
    \/ \E u \in Users : FetchServices(u)
    \/ \E m \in BagToSet(network) : ServeGetServices(m)
    \/ \E m \in BagToSet(network) : ReceiveServices(m)
    \/ \E u \in Users, serviceId \in ServiceIds : AddToCart(u, serviceId)
    \/ \E u \in Users, serviceId \in ServiceIds : RemoveFromCart(u, serviceId)
    \/ \E u \in Users, serviceId \in ServiceIds, quantity \in -1..MaxQuantity :
          UpdateQuantity(u, serviceId, quantity)
    \/ \E u \in Users : HandleClose(u)
    \/ \E id \in ServiceIds : DeleteService(id)

\* Business names that differ only in case and punctuation: their bases are
\* the same.
BusinessNames ==
    { <<"J", "o">>, <<"j", "o", "!">> }

\* Users complete the onboarding, any number of times and at the same time;
\* the statements of their calls interleave at each await, and with the
\* storage calls that write the users.
NextOnboarding ==
    \/ \E u \in Users, businessName \in BusinessNames :
          \E barberList \in BarberLists :
             CompleteOnboarding(u, [barbershopName |-> businessName,
                                    barbers        |-> barberList])
    \/ \E u \in Users : SelectSubdomain(u)
    \/ \E u \in Users : UpdateUser(u)
    \/ \E u \in Users : CreateBarber(u)
    \/ \E userData \in UpsertUsers : UpsertUser(userData)

\* The barbers of one shop: those its onboarding creates, renamed and
\* removed by the storage calls.
NextBarbers ==
    \/ \E barberList \in BarberLists :
          CompleteOnboarding("u1", [barbershopName |-> <<"J", "o">>,
                                    barbers        |-> barberList])
    \/ SelectSubdomain("u1")
    \/ UpdateUser("u1")
    \/ CreateBarber("u1")
    \/ \E id \in 1..MaxBarberId : UpdateBarber(id, [name |-> <<"B", "o">>])
    \/ \E id \in 1..MaxBarberId : DeleteBarber(id)

Next ==
    \/ NextOnboarding
    \/ NextBarbers
    \/ NextCart
    \/ NextStatusBodies
    \/ NextLedger
    \/ NextUnknownTenant
    \/ NextSigned
    \/ NextServices
    \/ NextQueueRequests
    \/ NextReferences
    \/ NextStatsQueue
    \/ NextDesk
    \/ NextReschedule
    \/ NextQueue
    \/ NextEstimates
    \/ NextBrowsers
    \/ NextAppointments
    \/ NextAppointmentsPage
    \/ NextBooking

Spec == Init /\ [][Next]_vars

InitUTC == Init /\ timezoneOffset = 0

SpecQueue == InitUTC /\ [][NextQueue]_vars

SpecEstimates == InitUTC /\ [][NextEstimates]_vars

SpecBrowsers == InitUTC /\ [][NextBrowsers]_vars

SpecBooking == Init /\ [][NextBooking]_vars

SpecAppointments == InitUTC /\ [][NextAppointments]_vars

SpecAppointmentsPage == InitUTC /\ [][NextAppointmentsPage]_vars

SpecReschedule == InitUTC /\ [][NextReschedule]_vars

SpecStatsQueue == InitUTC /\ [][NextStatsQueue]_vars

SpecDesk == InitUTC /\ [][NextDesk]_vars

SpecQueueRequests == InitUTC /\ [][NextQueueRequests]_vars

SpecReferences == InitUTC /\ [][NextReferences]_vars

SpecServices == InitUTC /\ [][NextServices]_vars

SpecSigned == InitUTC /\ [][NextSigned]_vars

SpecUnknownTenant == InitUTC /\ [][NextUnknownTenant]_vars

SpecLedger == InitUTC /\ [][NextLedger]_vars

SpecStatusBodies == InitUTC /\ [][NextStatusBodies]_vars

SpecCart == InitUTC /\ [][NextCart]_vars

SpecOnboarding == InitUTC /\ [][NextOnboarding]_vars

SpecBarbers == InitUTC /\ [][NextBarbers]_vars

(* ------------------------------------------------------------------ *)
(* Properties                                                           *)
(* ------------------------------------------------------------------ *)

\* The non-terminal entries (waiting or in_progress) of a tenant in a table.
NonTerminalIn(table, u) ==
    {r \in table : r.userId = u /\ r.status \in {"waiting", "in_progress"}}

IdsOf(table) == {r.id : r \in table}

\* The row of a table with a given id (ids are unique: they are serials).
RowOf(table, id) == CHOOSE r \in table : r.id = id

\* C1: in every reachable state and for every tenant, the positions of the
\* tenant's non-terminal queue entries are exactly {1..N}, N their number.
C1_DensePositions ==
    \A u \in Users :
        {r.position : r \in NonTerminalIn(queue, u)}
            = 1..Cardinality(NonTerminalIn(queue, u))

\* C2: every step that stores a new queue entry stores it with position
\* N + 1, N being the number of the tenant's non-terminal entries before
\* the step.
C2_AdmitAssignsNextPosition ==
    [][\A r \in queue' :
          r.id \notin IdsOf(queue)
              => r.position = Cardinality(NonTerminalIn(queue, r.userId)) + 1]_vars

\* C3: a step that stores a new queue entry never gives it the position of
\* an entry of the same tenant that was admitted before it and still waits.
C3_AdmitsNeverSharePosition ==
    [][\A r \in queue' :
          r.id \notin IdsOf(queue)
              => \A w \in queue :
                    (w.userId = r.userId /\ w.status = "waiting")
                        => w.position # r.position]_vars

\* C4: a step that changes the position of a non-terminal entry from p to q
\* shifts every other non-terminal entry of the tenant that lies between p
\* and q by one towards p, and leaves the entries outside that range alone.
C4_RepositionShiftsBetween ==
    [][\A r \in queue : \A moved \in queue' :
          (/\ moved.id = r.id
           /\ moved.position # r.position
           /\ r.status \in {"waiting", "in_progress"})
              => \A o \in NonTerminalIn(queue, r.userId) \ {r} :
                    /\ o.id \in IdsOf(queue')
                    /\ RowOf(queue', o.id).position =
                          IF r.position < o.position
                             /\ o.position <= moved.position
                              THEN o.position - 1
                          ELSE IF moved.position <= o.position
                                  /\ o.position < r.position
                              THEN o.position + 1
                          ELSE o.position]_vars

\* C5: a step that deletes a non-terminal entry at position p decrements by
\* one the position of every remaining entry of the tenant above p.
C5_RemoveRenumbers ==
    [][\A r \in queue :
          (/\ r.id \notin IdsOf(queue')
           /\ r.status \in {"waiting", "in_progress"})
              => \A o \in queue' :
                    (o.userId = r.userId
                     /\ RowOf(queue, o.id).position > r.position)
                        => o.position = RowOf(queue, o.id).position - 1]_vars

\* C6: the status of a queue entry changes only from waiting to in_progress
\* or from in_progress to completed.
C6_QueueTransitionsLegal ==
    [][\A r \in queue : \A r2 \in queue' :
          (r2.id = r.id /\ r2.status # r.status)
              => <<r.status, r2.status>> \in
                    {<<"waiting", "in_progress">>,
                     <<"in_progress", "completed">>}]_vars

\* C7: the status of an appointment changes only from scheduled to
\* in_progress, from in_progress to completed, or from scheduled or
\* in_progress to cancelled.
C7_AppointmentTransitionsLegal ==
    [][\A a \in appointments : \A a2 \in appointments' :
          (a2.id = a.id /\ a2.status # a.status)
              => <<a.status, a2.status>> \in
                    {<<"scheduled", "in_progress">>,
                     <<"in_progress", "completed">>,
                     <<"scheduled", "cancelled">>,
                     <<"in_progress", "cancelled">>}]_vars

\* How far a queue entry has come: waiting, then in_progress, then completed.
Rank(status) ==
    CASE status = "waiting" -> 0
      [] status = "in_progress" -> 1
      [] OTHER -> 2

\* C8: no step moves the status of a queue entry backward, also when the
\* request comes from a browser whose listing was fetched before another
\* browser's update.
C8_StatusNeverMovesBackward ==
    [][\A r \in queue : \A r2 \in queue' :
          r2.id = r.id => Rank(r2.status) >= Rank(r.status)]_vars

\* C9: a step that stores a new queue entry stamps it with k * d, k being the
\* number of the tenant's waiting entries before the step and d the duration
\* of the entry's service.
C9_EstimateIsWaitingTimesDuration ==
    [][\A r \in queue' :
          r.id \notin IdsOf(queue)
              => r.estimatedWaitTime =
                    Cardinality({w \in queue : w.userId = r.userId
                                               /\ w.status = "waiting"})
                        * services[r.serviceId].duration]_vars

\* C10: a step that stores a new appointment stores it with endTime minus
\* startTime equal to the duration of its service.
C10_EndTimeIsStartPlusDuration ==
    [][\A a \in appointments' :
          a.id \notin IdsOf(appointments)
              => a.endTime - a.startTime = services[a.serviceId].duration]_vars

\* C11: in every reachable state every stored appointment ends strictly
\* after it starts, also after a reschedule that changes only the start or
\* only the end.
C11_EndAfterStart ==
    \A a \in appointments : a.endTime > a.startTime

\* A time lies in the window [from, to).
InWindow(t, from, to) == from <= t /\ t < to

\* C12: a step that answers GET /api/appointments/today answers with exactly
\* the caller's appointments whose startTime t satisfies
\* midnight <= t < midnight + 24h for the current day, in ascending order of
\* startTime.
C12_TodaysAppointmentsInWindow ==
    [][(last'.op = "GET /api/appointments/today"
        /\ <<todays, last>>' # <<todays, last>>)
          => /\ {todays'[i] : i \in 1..Len(todays')}
                    = {a \in appointments :
                          /\ a.userId = last'.user
                          /\ InWindow(a.startTime, Midnight(clock),
                                      Midnight(clock) + MinutesPerDay)}
             /\ Len(todays')
                    = Cardinality({todays'[i] : i \in 1..Len(todays')})
             /\ \A i, j \in 1..Len(todays') :
                    i < j => todays'[i].startTime <= todays'[j].startTime]_vars

\* C13: the queue count a stats call reads, which it returns as
\* todayQueueCount, is the number of the tenant's queue entries whose joinedAt
\* lies in the call's window [midnight, midnight + 24h), whatever their
\* status: entries that joined on an earlier day are not counted.
C13_QueueCountIsTodays ==
    [][(stats.pc = "queueCount" /\ stats'.pc = "appointmentCount")
          => stats'.queueCount
                = Cardinality({r \in queue :
                                  /\ r.userId = stats.userId
                                  /\ InWindow(r.joinedAt, stats.today,
                                              stats.today + MinutesPerDay)})]_vars

\* C14: the appointment count a stats call reads, which it returns as
\* todayAppointmentCount, is the number of the tenant's appointments whose
\* startTime lies in the call's window [midnight, midnight + 24h).
C14_AppointmentCountIsTodays ==
    [][(stats.pc = "appointmentCount" /\ stats'.pc = "queueItems")
          => stats'.appointmentCount
                = Cardinality({a \in appointments :
                                  /\ a.userId = stats.userId
                                  /\ InWindow(a.startTime, stats.today,
                                              stats.today + MinutesPerDay)})]_vars

\* C15: the todayRevenue a stats call returns is the sum of total over the
\* tenant's transactions created in the call's window, whatever their
\* status: 20.00 pending and 35.00 completed today make 55.00.
C15_RevenueIsTodaysTotal ==
    [][(stats.pc = "todayTransactions" /\ stats'.pc = "done")
          => stats'.todayRevenue
                = SumTotals({t \in transactions :
                                /\ t.userId = stats.userId
                                /\ InWindow(t.createdAt, stats.today,
                                            stats.today + MinutesPerDay)})]_vars

\* C16: a stats call reads all of the tenant's queue entries, whatever their
\* joinedAt and status, and the averageWaitTime it returns is an integer
\* nearest to the mean of their estimatedWaitTime (at most one half away
\* from it), and 0 when there are none.
C16_AverageIsRoundedMean ==
    [][/\ (stats.pc = "queueItems" /\ stats'.pc = "todayTransactions")
            => stats'.queueItems = {r \in queue : r.userId = stats.userId}
       /\ (stats.pc = "todayTransactions" /\ stats'.pc = "done")
            => LET n == Cardinality(stats.queueItems)
                   sum == SumEstimates(stats.queueItems)
                   avg == stats'.averageWaitTime
               IN  IF n = 0
                       THEN avg = 0
                       ELSE /\ 2 * (avg * n - sum) <= n
                            /\ 2 * (sum - avg * n) <= n]_vars

\* A stats call has returned 1 for a tenant whose three queue entries have
\* estimates that add up to 2: the mean 2/3 was rounded up.
C16_Witness ==
    /\ stats.pc = "done"
    /\ stats.averageWaitTime = 1
    /\ stats.todayQueueCount = 3
    /\ LET rows == {r \in queue : r.userId = stats.userId}
       IN  Cardinality(rows) = 3 /\ SumEstimates(rows) = 2

\* C17: a stats call computes its window once, when it starts, from the
\* clock of that moment; the window does not change while the call runs, and
\* both time-windowed sub-queries (the appointment count and the day's
\* transactions) compare with those boundaries, also when the clock has
\* passed midnight since the call started.
C17_WindowComputedOnce ==
    [][/\ (stats.pc \in {"idle", "done"} /\ stats'.pc = "queueCount")
            => /\ stats'.today = Midnight(clock)
               /\ stats'.tomorrow = stats'.today + MinutesPerDay
       /\ stats.pc \notin {"idle", "done"}
            => /\ stats'.today = stats.today
               /\ stats'.tomorrow = stats.tomorrow
       /\ (stats.pc = "appointmentCount" /\ stats'.pc = "queueItems")
            => stats'.appointmentCount
                  = Cardinality({a \in appointments :
                                    /\ a.userId = stats.userId
                                    /\ a.startTime = stats.today
                                    /\ a.startTime = stats.tomorrow})
       /\ (stats.pc = "todayTransactions" /\ stats'.pc = "done")
            => stats'.todayRevenue
                  = SumTotals({t \in transactions :
                                  /\ t.userId = stats.userId
                                  /\ t.createdAt = stats.today
                                  /\ t.createdAt = stats.tomorrow})]_vars

\* A stats call is about to run its last windowed sub-query after the clock
\* has passed the midnight that ends the call's window, and the tenant has an
\* appointment and a transaction stamped with exactly that midnight.
C17_Witness ==
    /\ stats.pc = "todayTransactions"
    /\ Midnight(clock) = stats.tomorrow
    /\ \E a \in appointments :
          a.userId = stats.userId /\ a.startTime = stats.tomorrow
    /\ \E t \in transactions :
          t.userId = stats.userId /\ t.createdAt = stats.tomorrow

\* C18: a step of PUT /api/queue/:id/position that changes the position of an
\* entry changes it to a value in 1..count, count being the number of the
\* tenant's non-terminal entries: a request with a position outside that
\* range (0, count + 1) changes nothing.
C18_RepositionWithinRange ==
    [][\A r \in queue : \A r2 \in queue' :
          (/\ last'.op = "PUT /api/queue/:id/position"
           /\ r2.id = r.id
           /\ r2.position # r.position)
              => r2.position
                    \in 1..Cardinality(NonTerminalIn(queue, r.userId))]_vars

\* C19: a step of a reposition, advance or remove request whose id is not
\* the id of an entry of the requesting tenant (no such entry, or another
\* tenant's) is answered with a failure and leaves the queue as it was.
C19_ForeignEntryUntouched ==
    [][(/\ last'.op \in {"PUT /api/queue/:id/position",
                         "PUT /api/queue/:id/status",
                         "DELETE /api/queue/:id"}
        /\ <<queue, last>>' # <<queue, last>>
        /\ ~ \E r \in queue : r.id = last'.id /\ r.userId = last'.user)
          => /\ last'.code # 200
             /\ queue' = queue]_vars

\* C20: in every reachable state each stored appointment and each stored
\* queue entry names a customer and a service of its own tenant.
C20_ReferencesWithinTenant ==
    /\ \A r \in queue :
          /\ customers[r.customerId].userId = r.userId
          /\ services[r.serviceId].userId = r.userId
    /\ \A a \in appointments :
          /\ customers[a.customerId].userId = a.userId
          /\ services[a.serviceId].userId = a.userId

\* C21: a step of PUT /api/queue/:id/status stores and removes no entry,
\* changes nothing but the status and the update timestamp of the entry it
\* names, and leaves every other entry as it was.
C21_AdvanceChangesOnlyStatus ==
    [][(/\ last'.op = "PUT /api/queue/:id/status"
        /\ <<queue, last>>' # <<queue, last>>)
          => /\ IdsOf(queue') = IdsOf(queue)
             /\ \A r \in queue :
                   LET r2 == RowOf(queue', r.id)
                   IN  IF r.id = last'.id
                          THEN [r2 EXCEPT !.status = r.status,
                                          !.updatedAt = r.updatedAt] = r
                          ELSE r2 = r]_vars

\* An entry has been advanced to completed while an entry of the same tenant
\* stands behind it, at a position that was left as it was.
C21_Witness ==
    /\ last.op = "PUT /api/queue/:id/status"
    /\ \E r \in queue, w \in queue :
          /\ r.id = last.id
          /\ r.status = "completed"
          /\ w.userId = r.userId
          /\ w.status = "waiting"
          /\ w.position = r.position + 1

\* C22: no step changes the estimatedWaitTime stored on a queue entry: not
\* the admission of another entry, a reposition, an advance, the removal of
\* another entry, or a change of the duration of the entry's service.
C22_EstimateFrozen ==
    [][\A r \in queue : \A r2 \in queue' :
          r2.id = r.id => r2.estimatedWaitTime = r.estimatedWaitTime]_vars

\* An entry that was moved to the head of the queue, and whose service now
\* lasts 45 minutes, still carries the estimate of its admission.
C22_Witness ==
    \E r \in queue :
        /\ r.position = 1
        /\ last.op = "PUT /api/services/:id"
        /\ last.id = r.serviceId
        /\ services[r.serviceId].duration = 45
        /\ r.estimatedWaitTime = 30
        /\ \E w \in queue : w.id < r.id

\* C23: a step of PUT /api/appointments/:id whose patch holds one of
\* startTime and endTime stores and removes no appointment, changes at most
\* that one field of the appointment it names (a new startTime leaves the
\* stored endTime as it was), and leaves every other appointment as it was.
C23_RescheduleIsPartial ==
    [][(/\ last'.op = "PUT /api/appointments/:id"
        /\ <<appointments, last>>' # <<appointments, last>>)
          => /\ IdsOf(appointments') = IdsOf(appointments)
             /\ \A r \in appointments :
                   LET r2 == RowOf(appointments', r.id)
                   IN  IF r.id = last'.id
                          THEN \/ r2 = [r EXCEPT !.startTime = r2.startTime]
                               \/ r2 = [r EXCEPT !.endTime = r2.endTime]
                          ELSE r2 = r]_vars

\* An appointment that was booked from 0 to the end of its service has been
\* rescheduled to start later, and still ends when it ended.
C23_Witness ==
    /\ last.op = "PUT /api/appointments/:id"
    /\ \E a \in appointments :
          /\ a.id = last.id
          /\ a.startTime = 15
          /\ a.endTime = 30
          /\ services[a.serviceId].duration = 30

\* C24: in every reachable state the estimatedWaitTime stored on every queue
\* entry is at least 0 and the duration of every service is above 0.
C24_EstimateNonNegative ==
    /\ \A r \in queue : r.estimatedWaitTime >= 0
    /\ \A s \in DOMAIN services : services[s].duration > 0

\* C25: the four figures a stats call returns are the figures of one state
\* the store has been in.  Where entries are only ever admitted, the states
\* the store has been in hold the entries admitted up to some id k, so there
\* is a k for which the returned queue count and average are those of the
\* tenant's entries up to k, the appointment count and the revenue being
\* those of the appointments and transactions, which do not change here.
C25_FiguresOfOneState ==
    [][(stats.pc = "todayTransactions" /\ stats'.pc = "done")
          => \E k \in 0..MaxQueueId :
                LET rows == {r \in queue : r.id <= k /\ r.userId = stats.userId}
                IN  /\ stats'.todayQueueCount = Cardinality(rows)
                    /\ stats'.averageWaitTime = averageWaitTime(rows)
                    /\ stats'.todayAppointmentCount
                          = Cardinality({a \in appointments :
                                            /\ a.userId = stats.userId
                                            /\ a.startTime = stats.today
                                            /\ a.startTime = stats.tomorrow})
                    /\ stats'.todayRevenue
                          = SumTotals({t \in transactions :
                                          /\ t.userId = stats.userId
                                          /\ t.createdAt = stats.today
                                          /\ t.createdAt = stats.tomorrow})]_vars

\* C26: a stats call for an identifier that is the id of no user does not
\* return figures: the step that ends it answers with a failure.
C26_UnknownTenantFails ==
    [][(/\ stats.pc = "todayTransactions"
        /\ stats'.pc = "done"
        /\ stats.userId \notin DOMAIN users)
          => last'.code # 200]_vars

\* C27: after every step the appointment named by each stored transaction
\* exists, and a step of DELETE /api/appointments/:id for an appointment
\* that a transaction names is answered with a failure and leaves the
\* appointments and the transactions as they were.
C27_ReferencedAppointmentKept ==
    [][/\ \A t \in transactions' :
             t.appointmentId # 0
                 => \E a \in appointments' : a.id = t.appointmentId
       /\ (/\ last'.op = "DELETE /api/appointments/:id"
           /\ <<appointments, last>>' # <<appointments, last>>
           /\ \E t \in transactions : t.appointmentId = last'.id)
             => /\ last'.code # 200
                /\ appointments' = appointments
                /\ transactions' = transactions]_vars

\* A request to delete an appointment for which a payment is stored has been
\* refused; the appointment and the payment are both there.
C27_Witness ==
    /\ last.op = "DELETE /api/appointments/:id"
    /\ last.code = 500
    /\ \E a \in appointments : a.id = last.id
    /\ \E t \in transactions : t.appointmentId = last.id

\* C28: every step that stores a new queue entry stores it with status
\* waiting, and every step that stores a new appointment stores it with
\* status scheduled, whatever status the request body carries.
C28_EntersAtInitialState ==
    [][/\ \A r \in queue' :
             r.id \notin IdsOf(queue) => r.status = "waiting"
       /\ \A a \in appointments' :
             a.id \notin IdsOf(appointments) => a.status = "scheduled"]_vars

\* C29: after any sequence of addToCart, updateQuantity and removeFromCart,
\* each serviceId is on at most one line of the cart and every line's
\* quantity is at least 1.
C29_CartLinesDistinctAndPositive ==
    \A u \in Users :
        /\ \A i, j \in 1..Len(cart[u]) :
              cart[u][i].serviceId = cart[u][j].serviceId => i = j
        /\ \A i \in 1..Len(cart[u]) : cart[u][i].quantity >= 1

\* A cart whose second service was added first and whose first service was
\* added twice (or set to more than one): all three handlers have a line to
\* act on.
C29_Witness ==
    /\ Len(cart["u1"]) = 2
    /\ cart["u1"][1].serviceId = 2
    /\ cart["u1"][2].serviceId = 1
    /\ cart["u1"][2].quantity >= 2

\* C30: in every reachable state no two users are stored with the same
\* subdomain, also when two completeOnboarding calls for the same business
\* name interleave between the availability lookup and the update.
C30_SubdomainsDistinct ==
    \A u, v \in DOMAIN users :
        (u # v /\ users[u].subdomain # Null) =>
            users[u].subdomain # users[v].subdomain

\* Two calls found the same subdomain free; one has stored it and the other
\* is about to run its update with it.
C30_Witness ==
    /\ users["u1"].subdomain # Null
    /\ onboarding["u2"].pc = "update"
    /\ onboarding["u2"].subdomain = users["u1"].subdomain

====
